---- MODULE Spec2Model ----
(***************************************************************************)
(* A model of xpthread (src/src/xpthread.c), the emulated (_WIN32) backend:*)
(* one-time initialisation, thread lifecycle with the per-context record,  *)
(* the cancellation channel and the CRITICAL_SECTION mutex.                *)
(*                                                                         *)
(* The Win32 primitives the code calls (InitOnceExecuteOnce,               *)
(* _beginthreadex, _endthreadex, WaitForSingleObject, CloseHandle,         *)
(* Enter/Leave/TryEnterCriticalSection) are modelled by their documented   *)
(* behaviour at the line that calls them.                                  *)
(***************************************************************************)
EXTENDS Integers, FiniteSets, Sequences, TLC

\* ------------------------------------------------------------------ bounds
\* Number of contexts xpthread_create may start (context 0 is the initial thread).
NThreads == 2
\* xpthread_once calls in total.
MaxCalls == 4
\* Acquisition calls (lock, trylock, timedlock) on the mutex in total.
MaxOps == 3
\* Increments of the protected counter in total (SpecMutex).
MaxIncs == 2
\* xpthread_testcancel calls that return, in total.
MaxChecks == 2
\* Largest finite value the uninitialised timeout_ms is drawn from.
MaxGarbage == 2
\* Steps the clock takes (SpecTimed).
MaxTicks == 3

\* --------------------------------------------------------------- constants
EAGAIN == 11
ENOMEM == 12
EBUSY == 16
EINVAL == 22
ETIMEDOUT == 138
XPTHREAD_CANCEL_ENABLE == 1
XPTHREAD_CANCEL_DISABLE == 0
\* INFINITE is 0xFFFFFFFF, above every value elapsed takes here; it is kept
\* apart from the finite timeouts and compared by Below.
INFINITE == -1

Main == 0
Ctx == 0..NThreads
Created == 1..NThreads
\* A CRITICAL_SECTION with no owning thread.
NoOwner == -1
\* Function pointers a caller may pass as init_routine: NULL or once_func.
NULLFN == 0
ONCE_FUNC == 1
\* void* values, as <<high 32 bits, low 32 bits>> of a 64-bit pointer.
NULLPTR == <<0, 0>>
PtrVals == {NULLPTR, <<0, 7>>, <<1, 5>>}
\* What a joiner's retval variable holds before the call (any earlier content).
STALE == <<9, 9>>
\* What a prioceiling / old_ceiling variable holds before a call (any earlier
\* content other than 0).
StaleCeiling == 7
\* "No xpthread_self call has returned to this context yet."
NoHandle == <<"none", 0>>
\* What a call returned, as <<function, status>>, and "no call has returned to
\* this context yet".
Ret(op, v) == <<op, v>>
NoResult == <<>>

VARIABLES
    pc,            \* per context: where it is (see PcVals)
    result,        \* per context: the status its last xpthread call returned
    once_control,  \* the INIT_ONCE: "uninit", "pending" (a callback runs), "done"
    oncefn,        \* per context: the init_routine of its xpthread_once call
    calls,         \* xpthread_once calls made
    waited,        \* per context: its xpthread_once call blocked on a running callback
    initRuns,      \* times the body of once_func was executed
    initDone,      \* once_func has run to completion (its effects are in place)
    ctxrec,        \* per created context: the xpthread_win_ctx calloc'ed by create
    selfctx,       \* per context: the TLS pointer xpthread_self_ctx (0 is NULL)
    hnd,           \* per created context: its HANDLE, "none", "open" or "closed"
    thread,        \* per context: the xpthread_t its xpthread_create's thread
                   \* points to (0: nothing was written to it)
    exitcode,      \* per created context: the code passed to _endthreadex
    target,        \* per context: the handle its xpthread_join waits on (0: none)
    wantret,       \* per context: whether its join passed a non-NULL retval
    joinout,       \* per context: the variable its join's retval points to
    how,           \* per created context: how it ended ("", "return", "exit", "cancel")
    endval,        \* per created context: the value it returned or passed to exit
    cancel_state,  \* per context: the TLS cancel_state of xpthread_setcancelstate
    oldstate,      \* per context: the variable its setcancelstate's oldstate points to
    reqEnabled,    \* per created context: xpthread_cancel(handle) returned 0 while
                   \* its cancel_state was enabled
    reqDisabled,   \* per created context: ... while its cancel_state was disabled
    checks,        \* xpthread_testcancel calls that returned
    cs,            \* the CRITICAL_SECTION: [owner, count]
    held,          \* per context: acquisitions that returned 0, not yet unlocked
    ops,           \* acquisition calls made on the mutex
    now,           \* the wall clock, as the timespec xpthread_get_realtime returns
    deadline,      \* per context: the abstime of the xpthread_mutex_timedlock call
                   \* it is in (<<>> for NULL or no call)
    total_ms64,    \* per context: the local total_ms64 of xpthread_mutex_timedlock
    timeout_ms,    \* per context: the local timeout_ms of xpthread_mutex_timedlock
    elapsed,       \* per context: the local elapsed of xpthread_mutex_timedlock
    counter,       \* the shared counter of the test program
    old,           \* per context: the local "old" of thread_func
    incs,          \* per context: increments completed
    selfh,         \* per context: the handle its latest xpthread_self returned
    eqargs,        \* per context: the contexts whose xpthread_self handles its
                   \* latest xpthread_equal compared
    ceiling        \* per context: the int its prioceiling / old_ceiling points to

vars == <<pc, result, once_control, oncefn, calls, waited, initRuns, initDone, ctxrec,
          selfctx, hnd, exitcode, target, wantret, joinout, how, endval,
          cancel_state, oldstate, reqEnabled, reqDisabled, checks, cs, held, ops,
          now, deadline, total_ms64, timeout_ms, elapsed, counter, old, incs,
          thread, selfh, eqargs, ceiling>>

onceVars == <<once_control, oncefn, calls, waited, initRuns, initDone>>
lifeVars == <<ctxrec, selfctx, hnd, exitcode, how, endval, thread>>
joinVars == <<target, wantret, joinout>>
cancelVars == <<cancel_state, oldstate, reqEnabled, reqDisabled, checks>>
timedVars == <<deadline, total_ms64, timeout_ms, elapsed>>
mutexVars == <<cs, held, ops, now, timedVars>>
countVars == <<counter, old, incs>>
identVars == <<selfh, eqargs>>
prioVars == <<ceiling>>

\* The clock reading the model starts from, half a millisecond before a full
\* second, so that deadlines fall on both sides of the tv_nsec borrow.
StartTime == [tv_sec |-> 1, tv_nsec |-> 999500000]

PcVals == {"unborn", "start", "user", "once_cb", "once_body", "once_wait",
           "join_wait", "lock_wait", "tl_loop", "tl_sleep", "inc", "dead"}

TypeOK ==
    /\ pc \in [Ctx -> PcVals]
    /\ cs.owner \in Ctx \cup {NoOwner}
    /\ \A t \in Ctx : selfctx[t] \in {0, t}

\* The memory of a record that is not allocated, read as zeroes.
ZeroCtx == [alloc |-> FALSE, cancel_requested |-> 0, retval |-> NULLPTR]

\* calloc(1, sizeof(*ctx)) when it succeeds: a zeroed record, allocated.
calloc == [ZeroCtx EXCEPT !.alloc = TRUE]

\* free(ctx): the record is released.
freeKeepsRecord(rec) == rec

free(rec) == [rec EXCEPT !.alloc = FALSE]

Init ==
    /\ pc = [t \in Ctx |-> IF t = Main THEN "user" ELSE "unborn"]
    /\ result = [t \in Ctx |-> NoResult]
    /\ once_control = "uninit"
    /\ oncefn = [t \in Ctx |-> NULLFN]
    /\ calls = 0
    /\ waited = [t \in Ctx |-> FALSE]
    /\ initRuns = 0
    /\ initDone = FALSE
    /\ ctxrec = [t \in Created |-> ZeroCtx]
    /\ selfctx = [t \in Ctx |-> 0]
    /\ hnd = [t \in Created |-> "none"]
    /\ thread = [t \in Ctx |-> 0]
    /\ exitcode = [t \in Created |-> 0]
    /\ target = [t \in Ctx |-> 0]
    /\ wantret = [t \in Ctx |-> FALSE]
    /\ joinout = [t \in Ctx |-> STALE]
    /\ how = [t \in Created |-> ""]
    /\ endval = [t \in Created |-> NULLPTR]
    /\ cancel_state = [t \in Ctx |-> XPTHREAD_CANCEL_ENABLE]
    /\ oldstate = [t \in Ctx |-> XPTHREAD_CANCEL_ENABLE]
    /\ reqEnabled = [t \in Created |-> FALSE]
    /\ reqDisabled = [t \in Created |-> FALSE]
    /\ checks = 0
    /\ cs = [owner |-> NoOwner, count |-> 0]
    /\ held = [t \in Ctx |-> 0]
    /\ ops = 0
    /\ now = StartTime
    /\ deadline = [t \in Ctx |-> <<>>]
    /\ total_ms64 = [t \in Ctx |-> 0]
    /\ timeout_ms = [t \in Ctx |-> 0]
    /\ elapsed = [t \in Ctx |-> 0]
    /\ counter = 0
    /\ old = [t \in Ctx |-> 0]
    /\ incs = [t \in Ctx |-> 0]
    /\ selfh = [t \in Ctx |-> NoHandle]
    /\ eqargs = [t \in Ctx |-> <<>>]
    /\ ceiling = [t \in Ctx |-> StaleCeiling]

\* ------------------------------------------------------- thread lifecycle
\* The next context xpthread_create would start (handles are given out in order).
NextUnborn == IF \E t \in Created : pc[t] = "unborn"
              THEN CHOOSE t \in Created :
                     pc[t] = "unborn" /\ \A u \in Created : pc[u] = "unborn" => t <= u
              ELSE 0

\* xpthread_create by context c: calloc fails (ENOMEM), _beginthreadex fails
\* (the record is freed, EAGAIN), or the thread is started and *thread written.
Create(c, outcome) ==
    /\ pc[c] = "user"
    /\ NextUnborn # 0
    /\ LET t == NextUnborn IN
       CASE outcome = "nomem" ->
              /\ result' = [result EXCEPT ![c] = Ret("create", ENOMEM)]
              /\ UNCHANGED <<pc, ctxrec, hnd, thread>>
         [] outcome = "nothread" ->
              /\ result' = [result EXCEPT ![c] = Ret("create", EAGAIN)]
              /\ ctxrec' = [ctxrec EXCEPT ![t] = free(calloc)]
              /\ UNCHANGED <<pc, hnd, thread>>
         [] OTHER ->
              /\ ctxrec' = [ctxrec EXCEPT ![t] = calloc]
              /\ hnd' = [hnd EXCEPT ![t] = "open"]
              /\ thread' = [thread EXCEPT ![c] = t]
              /\ pc' = [pc EXCEPT ![t] = "start"]
              /\ result' = [result EXCEPT ![c] = Ret("create", 0)]
    /\ UNCHANGED <<selfctx, exitcode, how, endval>>
    /\ UNCHANGED <<onceVars, joinVars, cancelVars, mutexVars, countVars, identVars, prioVars>>

\* thread_wrapper, entry: xpthread_self_ctx = ctx, then start_routine runs.
WrapperStart(t) ==
    /\ t \in Created
    /\ pc[t] = "start"
    /\ selfctx' = [selfctx EXCEPT ![t] = t]
    /\ pc' = [pc EXCEPT ![t] = "user"]
    /\ UNCHANGED <<result, ctxrec, hnd, exitcode, how, endval, thread>>
    /\ UNCHANGED <<onceVars, joinVars, cancelVars, mutexVars, countVars, identVars, prioVars>>

CreateStep == \E o \in {"ok", "nomem", "nothread"} : Create(Main, o)
CreateOk == Create(Main, "ok")
StartStep == \E t \in Created : WrapperStart(t)

\* ------------------------------------------------------------ xpthread_once
\* InitOnceExecuteOnce, on entry: the caller runs the callback when no
\* initialisation has succeeded or is running, waits while one is running, and
\* returns at once when one has completed.
OnceEnterForgetsDone(state) ==
    IF state = "pending" THEN "wait" ELSE "run"

OnceEnterNoWait(state) ==
    IF state = "uninit" THEN "run" ELSE "return"

OnceEnter(state) ==
    CASE state = "uninit" -> "run"
      [] state = "pending" -> "wait"
      [] OTHER -> "return"

\* once_wrapper: FALSE for a NULL function, else calls it and returns TRUE.
once_wrapper(fn) == fn # NULLFN

\* xpthread_once(once_control, fn), up to the point where the call either
\* returns, blocks, or is about to run once_wrapper.
OnceCall(t, fn) ==
    /\ pc[t] = "user"
    /\ calls < MaxCalls
    /\ calls' = calls + 1
    /\ oncefn' = [oncefn EXCEPT ![t] = fn]
    /\ waited' = [waited EXCEPT ![t] = (OnceEnter(once_control) = "wait")]
    /\ CASE OnceEnter(once_control) = "run" ->
              /\ once_control' = "pending"
              /\ pc' = [pc EXCEPT ![t] = "once_cb"]
              /\ UNCHANGED result
         [] OnceEnter(once_control) = "wait" ->
              /\ pc' = [pc EXCEPT ![t] = "once_wait"]
              /\ UNCHANGED <<once_control, result>>
         [] OTHER ->
              /\ result' = [result EXCEPT ![t] = Ret("once", 0)]
              /\ UNCHANGED <<once_control, pc>>
    /\ UNCHANGED <<initRuns, initDone>>
    /\ UNCHANGED <<lifeVars, joinVars, cancelVars, mutexVars, countVars, identVars, prioVars>>

\* once_wrapper runs in the caller that claimed the initialisation: with a NULL
\* function it returns FALSE (the INIT_ONCE goes back to uninitialised and
\* xpthread_once returns -1); otherwise the body of the function starts.
OnceCallback(t) ==
    /\ pc[t] = "once_cb"
    /\ IF once_wrapper(oncefn[t])
       THEN /\ initRuns' = initRuns + 1
            /\ pc' = [pc EXCEPT ![t] = "once_body"]
            /\ UNCHANGED <<once_control, result>>
       ELSE /\ once_control' = "uninit"
            /\ result' = [result EXCEPT ![t] = Ret("once", -1)]
            /\ pc' = [pc EXCEPT ![t] = "user"]
            /\ UNCHANGED initRuns
    /\ UNCHANGED <<oncefn, calls, waited, initDone>>
    /\ UNCHANGED <<lifeVars, joinVars, cancelVars, mutexVars, countVars, identVars, prioVars>>

\* The function returns, once_wrapper returns TRUE, the INIT_ONCE is complete
\* and xpthread_once returns 0.
OnceBodyEnd(t) ==
    /\ pc[t] = "once_body"
    /\ initDone' = TRUE
    /\ once_control' = "done"
    /\ result' = [result EXCEPT ![t] = Ret("once", 0)]
    /\ pc' = [pc EXCEPT ![t] = "user"]
    /\ UNCHANGED <<oncefn, calls, waited, initRuns>>
    /\ UNCHANGED <<lifeVars, joinVars, cancelVars, mutexVars, countVars, identVars, prioVars>>

\* A caller blocked in InitOnceExecuteOnce resumes once no callback is running:
\* it returns 0 if the initialisation completed, and otherwise (the callback
\* that ran returned FALSE) runs the callback itself.
OnceWake(t) ==
    /\ pc[t] = "once_wait"
    /\ OnceEnter(once_control) # "wait"
    /\ IF OnceEnter(once_control) = "run"
       THEN /\ once_control' = "pending"
            /\ pc' = [pc EXCEPT ![t] = "once_cb"]
            /\ UNCHANGED result
       ELSE /\ result' = [result EXCEPT ![t] = Ret("once", 0)]
            /\ pc' = [pc EXCEPT ![t] = "user"]
            /\ UNCHANGED once_control
    /\ UNCHANGED <<oncefn, calls, waited, initRuns, initDone>>
    /\ UNCHANGED <<lifeVars, joinVars, cancelVars, mutexVars, countVars, identVars, prioVars>>

NextOnce ==
    \/ CreateOk
    \/ StartStep
    \/ \E t \in Ctx : \E fn \in {NULLFN, ONCE_FUNC} : OnceCall(t, fn)
    \/ \E t \in Ctx : OnceCallback(t)
    \/ \E t \in Ctx : OnceBodyEnd(t)
    \/ \E t \in Ctx : OnceWake(t)

SpecOnce == Init /\ [][NextOnce]_vars

\* --------------------------------------------------------------- the mutex
\* A CRITICAL_SECTION can be entered by a thread when no thread owns it or when
\* the thread owns it already (it counts the nested entries).
CanEnterAnyOwner(t) == TRUE

CanEnter(t) == cs.owner \in {NoOwner, t}

EnteredWithoutOwner(t) == [owner |-> NoOwner, count |-> cs.count + 1]

Entered(t) == [owner |-> t, count |-> cs.count + 1]

Left == IF cs.count = 1
        THEN [owner |-> NoOwner, count |-> 0]
        ELSE [cs EXCEPT !.count = @ - 1]

\* xpthread_mutex_lock: the call enters EnterCriticalSection ...
LockCall(t) ==
    /\ pc[t] = "user"
    /\ ops < MaxOps
    /\ ops' = ops + 1
    /\ pc' = [pc EXCEPT ![t] = "lock_wait"]
    /\ UNCHANGED <<result, cs, held, now, timedVars>>
    /\ UNCHANGED <<onceVars, lifeVars, joinVars, cancelVars, countVars, identVars, prioVars>>

\* ... and returns 0 once the CRITICAL_SECTION could be entered.
LockAcquire(t) ==
    /\ pc[t] = "lock_wait"
    /\ CanEnter(t)
    /\ cs' = Entered(t)
    /\ held' = [held EXCEPT ![t] = @ + 1]
    /\ result' = [result EXCEPT ![t] = Ret("lock", 0)]
    /\ pc' = [pc EXCEPT ![t] = "user"]
    /\ UNCHANGED <<ops, now, timedVars>>
    /\ UNCHANGED <<onceVars, lifeVars, joinVars, cancelVars, countVars, identVars, prioVars>>

\* xpthread_mutex_unlock by a context that holds the mutex (by any other it is
\* undefined): LeaveCriticalSection, return 0.
Unlock(t) ==
    /\ pc[t] = "user"
    /\ held[t] > 0
    /\ cs' = Left
    /\ held' = [held EXCEPT ![t] = @ - 1]
    /\ result' = [result EXCEPT ![t] = Ret("unlock", 0)]
    /\ UNCHANGED <<pc, ops, now, timedVars>>
    /\ UNCHANGED <<onceVars, lifeVars, joinVars, cancelVars, countVars, identVars, prioVars>>

\* xpthread_mutex_trylock: TryEnterCriticalSection(mutex) ? 0 : EBUSY.
TryLock(t) ==
    /\ pc[t] = "user"
    /\ ops < MaxOps
    /\ ops' = ops + 1
    /\ IF CanEnter(t)
       THEN /\ cs' = Entered(t)
            /\ held' = [held EXCEPT ![t] = @ + 1]
            /\ result' = [result EXCEPT ![t] = Ret("trylock", 0)]
       ELSE /\ result' = [result EXCEPT ![t] = Ret("trylock", EBUSY)]
            /\ UNCHANGED <<cs, held>>
    /\ UNCHANGED <<pc, now, timedVars>>
    /\ UNCHANGED <<onceVars, lifeVars, joinVars, cancelVars, countVars, identVars, prioVars>>

\* The arithmetic of xpthread_mutex_timedlock on (abstime - now), in ms.
TotalMsNoBorrow(abstime, ts) ==
    LET sec_diff == abstime.tv_sec - ts.tv_sec
        nsec_diff == abstime.tv_nsec - ts.tv_nsec
        nsec == IF nsec_diff < 0 THEN nsec_diff + 1000000000 ELSE nsec_diff
    IN  sec_diff * 1000 + (nsec \div 1000000)

TotalMs(abstime, ts) ==
    LET sec_diff == abstime.tv_sec - ts.tv_sec
        nsec_diff == abstime.tv_nsec - ts.tv_nsec
        sec == IF nsec_diff < 0 THEN sec_diff - 1 ELSE sec_diff
        nsec == IF nsec_diff < 0 THEN nsec_diff + 1000000000 ELSE nsec_diff
    IN  sec * 1000 + (nsec \div 1000000)

\* elapsed < timeout_ms, on DWORDs.
Below(e, tmo) == tmo = INFINITE \/ e < tmo

\* const DWORD interval = 1.
interval == 1

\* The values the uninitialised local timeout_ms may hold.
Garbage == (0..MaxGarbage) \cup {INFINITE}

\* The polls the model follows a call through.
MaxPolls == MaxGarbage + 1

\* The deadlines a caller passes: 0.5 ms before now, now, and 0.5, 1 and 2 ms
\* after it.
PastDeadline == [tv_sec |-> 1, tv_nsec |-> 999000000]
FutureDeadline == [tv_sec |-> 2, tv_nsec |-> 1500000]
Deadlines == {PastDeadline,
              [tv_sec |-> 1, tv_nsec |-> 999500000],
              [tv_sec |-> 2, tv_nsec |-> 0],
              [tv_sec |-> 2, tv_nsec |-> 500000],
              FutureDeadline}

\* xpthread_mutex_timedlock(mutex, abstime), up to the loop. abstime is <<>>
\* for NULL and <<ts>> for a pointer to ts. With a non-NULL abstime the code
\* computes total_ms64, returns ETIMEDOUT if it is <= 0 and otherwise goes on
\* with timeout_ms never assigned: it holds whatever the stack held (garbage).
TimedLockCall(t, abstime, garbage) ==
    /\ pc[t] = "user"
    /\ ops < MaxOps
    /\ ops' = ops + 1
    /\ IF abstime # <<>>
       THEN LET total == TotalMs(abstime[1], now) IN
            IF total <= 0
            THEN /\ result' = [result EXCEPT ![t] = Ret("timedlock", ETIMEDOUT)]
                 /\ UNCHANGED <<pc, timedVars>>
            ELSE /\ deadline' = [deadline EXCEPT ![t] = abstime]
                 /\ total_ms64' = [total_ms64 EXCEPT ![t] = total]
                 /\ timeout_ms' = [timeout_ms EXCEPT ![t] = garbage]
                 /\ elapsed' = [elapsed EXCEPT ![t] = 0]
                 /\ pc' = [pc EXCEPT ![t] = "tl_loop"]
                 /\ UNCHANGED result
       ELSE /\ timeout_ms' = [timeout_ms EXCEPT ![t] = INFINITE]
            /\ elapsed' = [elapsed EXCEPT ![t] = 0]
            /\ pc' = [pc EXCEPT ![t] = "tl_loop"]
            /\ UNCHANGED <<result, deadline, total_ms64>>
    /\ UNCHANGED <<cs, held, now>>
    /\ UNCHANGED <<onceVars, lifeVars, joinVars, cancelVars, countVars, identVars, prioVars>>

\* The locals of a xpthread_mutex_timedlock call end with the call.
TimedLockDone(t) ==
    /\ total_ms64' = [total_ms64 EXCEPT ![t] = 0]
    /\ timeout_ms' = [timeout_ms EXCEPT ![t] = 0]
    /\ elapsed' = [elapsed EXCEPT ![t] = 0]
    /\ deadline' = [deadline EXCEPT ![t] = <<>>]

\* One evaluation of the loop condition and the TryEnterCriticalSection that
\* follows it: inside the loop while elapsed < timeout_ms, the final check
\* after it.
TimedLockTry(t) ==
    /\ pc[t] = "tl_loop"
    /\ IF CanEnter(t)
       THEN /\ cs' = Entered(t)
            /\ held' = [held EXCEPT ![t] = @ + 1]
            /\ result' = [result EXCEPT ![t] = Ret("timedlock", 0)]
            /\ pc' = [pc EXCEPT ![t] = "user"]
            /\ TimedLockDone(t)
       ELSE IF Below(elapsed[t], timeout_ms[t])
            THEN /\ pc' = [pc EXCEPT ![t] = "tl_sleep"]
                 /\ UNCHANGED <<cs, held, result, timedVars>>
            ELSE /\ result' = [result EXCEPT ![t] = Ret("timedlock", ETIMEDOUT)]
                 /\ pc' = [pc EXCEPT ![t] = "user"]
                 /\ TimedLockDone(t)
                 /\ UNCHANGED <<cs, held>>
    /\ UNCHANGED <<ops, now>>
    /\ UNCHANGED <<onceVars, lifeVars, joinVars, cancelVars, countVars, identVars, prioVars>>

\* Sleep(interval); elapsed += interval. (Beyond MaxPolls the model stops
\* counting: only a timeout_ms of INFINITE lets elapsed get there.)
TimedLockSleep(t) ==
    /\ pc[t] = "tl_sleep"
    /\ elapsed' = [elapsed EXCEPT ![t] =
                     IF @ + interval > MaxPolls THEN MaxPolls ELSE @ + interval]
    /\ pc' = [pc EXCEPT ![t] = "tl_loop"]
    /\ UNCHANGED <<result, cs, held, ops, now, deadline, total_ms64, timeout_ms>>
    /\ UNCHANGED <<onceVars, lifeVars, joinVars, cancelVars, countVars, identVars, prioVars>>

\* The increments completed by the contexts 0..n.
RECURSIVE IncsUpTo(_)
IncsUpTo(n) == IF n < 0 THEN 0 ELSE incs[n] + IncsUpTo(n - 1)

TotalIncs == IncsUpTo(NThreads)

\* thread_func, "int old = counter;", by a context that holds the mutex.
IncRead(t) ==
    /\ pc[t] = "user"
    /\ held[t] > 0
    /\ old' = [old EXCEPT ![t] = counter]
    /\ pc' = [pc EXCEPT ![t] = "inc"]
    /\ UNCHANGED <<result, counter, incs>>
    /\ UNCHANGED <<onceVars, lifeVars, joinVars, cancelVars, mutexVars, identVars, prioVars>>

\* thread_func, "counter = old + 1;".
IncWrite(t) ==
    /\ pc[t] = "inc"
    /\ counter' = old[t] + 1
    /\ incs' = [incs EXCEPT ![t] = @ + 1]
    /\ pc' = [pc EXCEPT ![t] = "user"]
    /\ UNCHANGED <<result, old>>
    /\ UNCHANGED <<onceVars, lifeVars, joinVars, cancelVars, mutexVars, identVars, prioVars>>

\* IncRead within the bound on increments.
BoundedIncRead(t) == TotalIncs < MaxIncs /\ IncRead(t)

NextMutex ==
    \/ CreateOk
    \/ StartStep
    \/ \E t \in Ctx : LockCall(t)
    \/ \E t \in Ctx : LockAcquire(t)
    \/ \E t \in Ctx : Unlock(t)
    \/ \E t \in Ctx : TryLock(t)
    \/ \E t \in Ctx : \E a \in {<<PastDeadline>>, <<FutureDeadline>>} :
         \E g \in 0..1 : TimedLockCall(t, a, g)
    \/ \E t \in Ctx : TimedLockTry(t)
    \/ \E t \in Ctx : TimedLockSleep(t)
    \/ \E t \in Ctx : BoundedIncRead(t)
    \/ \E t \in Ctx : IncWrite(t)

SpecMutex == Init /\ [][NextMutex]_vars

\* ------------------------------------------- priority ceiling, consistency
\* The ceilings a caller passes to xpthread_mutex_setprioceiling.
Ceilings == {0, StaleCeiling}

\* xpthread_mutex_getprioceiling(mutex, prioceiling); want tells whether
\* prioceiling is non-NULL: EINVAL for NULL, else *prioceiling = 0, return 0.
GetPrioCeiling(t, want) ==
    /\ pc[t] = "user"
    /\ IF want
       THEN /\ ceiling' = [ceiling EXCEPT ![t] = 0]
            /\ result' = [result EXCEPT ![t] = Ret("getprioceiling", 0)]
       ELSE /\ result' = [result EXCEPT ![t] = Ret("getprioceiling", EINVAL)]
            /\ UNCHANGED ceiling
    /\ UNCHANGED pc
    /\ UNCHANGED <<onceVars, lifeVars, joinVars, cancelVars, mutexVars, countVars, identVars>>

\* xpthread_mutex_setprioceiling(mutex, prioceiling, old_ceiling); want tells
\* whether old_ceiling is non-NULL: *old_ceiling = 0 if so, return 0. The new
\* ceiling is not kept anywhere.
SetPrioCeiling(t, prioceiling, want) ==
    /\ pc[t] = "user"
    /\ prioceiling \in Ceilings
    /\ ceiling' = [ceiling EXCEPT ![t] = IF want THEN 0 ELSE @]
    /\ result' = [result EXCEPT ![t] = Ret("setprioceiling", 0)]
    /\ UNCHANGED pc
    /\ UNCHANGED <<onceVars, lifeVars, joinVars, cancelVars, mutexVars, countVars, identVars>>

\* xpthread_mutex_consistent(mutex): (void)mutex; return 0.
Consistent(t) ==
    /\ pc[t] = "user"
    /\ result' = [result EXCEPT ![t] = Ret("consistent", 0)]
    /\ UNCHANGED <<pc, ceiling>>
    /\ UNCHANGED <<onceVars, lifeVars, joinVars, cancelVars, mutexVars, countVars, identVars>>

NextPrio ==
    \/ CreateOk
    \/ StartStep
    \/ \E t \in Ctx : TryLock(t)
    \/ \E t \in Ctx : Unlock(t)
    \/ \E t \in Ctx : \E want \in BOOLEAN : GetPrioCeiling(t, want)
    \/ \E t \in Ctx : \E p \in Ceilings : \E want \in BOOLEAN : SetPrioCeiling(t, p, want)
    \/ \E t \in Ctx : Consistent(t)

SpecPrio == Init /\ [][NextPrio]_vars

\* ------------------------------------------------- timed lock and the clock
\* The system clock xpthread_get_realtime reads moves on, in steps of TickNs
\* nanoseconds, whatever the contexts do. (Sleep(1) may return before a full
\* millisecond has passed when the clock resolution is coarser, so no step of
\* a context waits for the clock.)
TickNs == 500000

\* ts plus ns nanoseconds (ns below one second), as a timespec.
AddNs(ts, ns) ==
    IF ts.tv_nsec + ns >= 1000000000
    THEN [tv_sec |-> ts.tv_sec + 1, tv_nsec |-> ts.tv_nsec + ns - 1000000000]
    ELSE [tv_sec |-> ts.tv_sec, tv_nsec |-> ts.tv_nsec + ns]

\* The clock steps taken since the start.
Ticks ==
    ((now.tv_sec - StartTime.tv_sec) * 1000000000
       + (now.tv_nsec - StartTime.tv_nsec)) \div TickNs

Tick ==
    /\ Ticks < MaxTicks
    /\ now' = AddNs(now, TickNs)
    /\ UNCHANGED <<pc, result, cs, held, ops, timedVars>>
    /\ UNCHANGED <<onceVars, lifeVars, joinVars, cancelVars, countVars, identVars, prioVars>>

\* The abstime arguments of a call: NULL or a pointer to one of the deadlines.
AbstimeArgs == {<<>>} \cup {<<d>> : d \in Deadlines}

NextTimed ==
    \/ CreateOk
    \/ StartStep
    \/ Tick
    \/ \E t \in Created : TryLock(t)
    \/ \E t \in Ctx : Unlock(t)
    \/ \E a \in AbstimeArgs : \E g \in Garbage : TimedLockCall(Main, a, g)
    \/ TimedLockTry(Main)
    \/ TimedLockSleep(Main)

SpecTimed == Init /\ [][NextTimed]_vars

\* ---------------------------------------------------- termination and join
\* thread_wrapper, after start_routine returned v: ctx->retval = ret;
\* _endthreadex(0).
Return(t, v) ==
    /\ t \in Created
    /\ pc[t] = "user"
    /\ ctxrec' = [ctxrec EXCEPT ![selfctx[t]].retval = v]
    /\ exitcode' = [exitcode EXCEPT ![t] = 0]
    /\ pc' = [pc EXCEPT ![t] = "dead"]
    /\ how' = [how EXCEPT ![t] = "return"]
    /\ endval' = [endval EXCEPT ![t] = v]
    /\ UNCHANGED <<result, selfctx, hnd, thread>>
    /\ UNCHANGED <<onceVars, joinVars, cancelVars, mutexVars, countVars, identVars, prioVars>>

\* (unsigned)(size_t)retval: the low 32 bits of the pointer.
ExitCode(v) == IF v # NULLPTR THEN v[2] ELSE 0

\* xpthread_exit(v) in a created context: _endthreadex(code). Nothing is
\* written to the context's record.
Exit(t, v) ==
    /\ t \in Created
    /\ pc[t] = "user"
    /\ exitcode' = [exitcode EXCEPT ![t] = ExitCode(v)]
    /\ pc' = [pc EXCEPT ![t] = "dead"]
    /\ how' = [how EXCEPT ![t] = "exit"]
    /\ endval' = [endval EXCEPT ![t] = v]
    /\ UNCHANGED <<result, ctxrec, selfctx, hnd, thread>>
    /\ UNCHANGED <<onceVars, joinVars, cancelVars, mutexVars, countVars, identVars, prioVars>>

\* xpthread_join(h, retval) by j enters WaitForSingleObject(h, INFINITE). The
\* handle is open and no other context joins it (anything else is undefined);
\* want tells whether retval is non-NULL, and the variable it points to holds
\* some earlier value.
JoinCall(j, h, want) ==
    /\ pc[j] = "user"
    /\ h \in Created
    /\ h # j
    /\ hnd[h] = "open"
    /\ \A u \in Ctx : ~(pc[u] = "join_wait" /\ target[u] = h)
    /\ target' = [target EXCEPT ![j] = h]
    /\ wantret' = [wantret EXCEPT ![j] = want]
    /\ joinout' = [joinout EXCEPT ![j] = STALE]
    /\ pc' = [pc EXCEPT ![j] = "join_wait"]
    /\ UNCHANGED <<result>>
    /\ UNCHANGED <<onceVars, lifeVars, cancelVars, mutexVars, countVars, identVars, prioVars>>

\* WaitForSingleObject on a thread handle returns when the thread has ended.
WaitDoneAtOnce(h) == TRUE

WaitDone(h) == pc[h] = "dead"

\* What xpthread_join stores through retval: the retval of the record that
\* xpthread_self_ctx points to, which is the record of the calling context.
JoinValue(j) ==
    IF wantret[j] /\ selfctx[j] # 0
    THEN ctxrec[selfctx[j]].retval
    ELSE joinout[j]

\* The rest of xpthread_join once the wait is over: GetExitCodeThread (its
\* result is not used), the store through retval, CloseHandle, return 0.
JoinReturn(j) ==
    /\ pc[j] = "join_wait"
    /\ WaitDone(target[j])
    /\ joinout' = [joinout EXCEPT ![j] = JoinValue(j)]
    /\ hnd' = [hnd EXCEPT ![target[j]] = "closed"]
    /\ result' = [result EXCEPT ![j] = Ret("join", 0)]
    /\ pc' = [pc EXCEPT ![j] = "user"]
    /\ UNCHANGED <<target, wantret, ctxrec, selfctx, exitcode, how, endval, thread>>
    /\ UNCHANGED <<onceVars, cancelVars, mutexVars, countVars, identVars, prioVars>>

\* xpthread_detach(h) on an open handle: CloseHandle(h) ? 0 : -1.
Detach(j, h) ==
    /\ pc[j] = "user"
    /\ h \in Created
    /\ hnd[h] = "open"
    /\ \A u \in Ctx : ~(pc[u] = "join_wait" /\ target[u] = h)
    /\ hnd' = [hnd EXCEPT ![h] = "closed"]
    /\ result' = [result EXCEPT ![j] = Ret("detach", 0)]
    /\ UNCHANGED <<pc, ctxrec, selfctx, exitcode, how, endval, thread>>
    /\ UNCHANGED <<onceVars, joinVars, cancelVars, mutexVars, countVars, identVars, prioVars>>

NextLife ==
    \/ CreateStep
    \/ StartStep
    \/ \E t \in Created : \E v \in PtrVals : Return(t, v)
    \/ \E t \in Created : \E v \in PtrVals : Exit(t, v)
    \/ \E j \in Ctx : \E h \in Created : \E want \in BOOLEAN : JoinCall(j, h, want)
    \/ \E j \in Ctx : JoinReturn(j)
    \/ \E j \in Ctx : \E h \in Created : Detach(j, h)

SpecLife == Init /\ [][NextLife]_vars

\* ----------------------------------------------------------------- identity
\* GetCurrentThread() returns a pseudo handle: one constant, which stands for
\* the calling thread in whichever thread uses it.
GetCurrentThread == <<"pseudo", 0>>

\* xpthread_self(), called in context t: return GetCurrentThread().
xpthread_selfOwnHandle(t) == <<"thread", t>>

xpthread_self(t) == GetCurrentThread

\* xpthread_equal(t1, t2): return t1 == t2.
xpthread_equal(t1, t2) == IF t1 = t2 THEN 1 ELSE 0

\* A context calls xpthread_self and keeps the handle it got.
SelfCall(t) ==
    /\ pc[t] = "user"
    /\ selfh' = [selfh EXCEPT ![t] = xpthread_self(t)]
    /\ UNCHANGED <<pc, result, eqargs>>
    /\ UNCHANGED <<onceVars, lifeVars, joinVars, cancelVars, mutexVars, countVars, prioVars>>

\* A context calls xpthread_equal on the handles that the contexts x and y got
\* from xpthread_self (handles are plain values a context can pass on).
EqualCall(t, x, y) ==
    /\ pc[t] = "user"
    /\ selfh[x] # NoHandle
    /\ selfh[y] # NoHandle
    /\ eqargs' = [eqargs EXCEPT ![t] = <<x, y>>]
    /\ result' = [result EXCEPT ![t] = Ret("equal", xpthread_equal(selfh[x], selfh[y]))]
    /\ UNCHANGED <<pc, selfh>>
    /\ UNCHANGED <<onceVars, lifeVars, joinVars, cancelVars, mutexVars, countVars, prioVars>>

NextIdent ==
    \/ CreateOk
    \/ StartStep
    \/ \E t \in Ctx : SelfCall(t)
    \/ \E t \in Ctx : \E x \in Ctx : \E y \in Ctx : EqualCall(t, x, y)

SpecIdent == Init /\ [][NextIdent]_vars

\* ------------------------------------------------------------ cancellation
\* xpthread_setcancelstate(state, oldstate): the previous state is stored
\* through a non-NULL oldstate, the per-thread cancel_state is set, 0 returned.
SetCancelState(t, state, want) ==
    /\ pc[t] = "user"
    /\ oldstate' = [oldstate EXCEPT ![t] = IF want THEN cancel_state[t] ELSE @]
    /\ cancel_state' = [cancel_state EXCEPT ![t] = state]
    /\ result' = [result EXCEPT ![t] = Ret("setcancelstate", 0)]
    /\ UNCHANGED <<pc, reqEnabled, reqDisabled, checks>>
    /\ UNCHANGED <<onceVars, lifeVars, joinVars, mutexVars, countVars, identVars, prioVars>>

\* What xpthread_cancel does to the record of its target: nothing.
CancelEffectSetsFlag(rec) == [rec EXCEPT !.cancel_requested = 1]

CancelEffect(rec) == rec

\* xpthread_cancel(h) by c: EINVAL for a NULL handle (h = 0), else 0.
Cancel(c, h) ==
    /\ pc[c] = "user"
    /\ h \in Created => hnd[h] = "open"
    /\ IF h = 0
       THEN /\ result' = [result EXCEPT ![c] = Ret("cancel", EINVAL)]
            /\ UNCHANGED <<ctxrec, reqEnabled, reqDisabled>>
       ELSE /\ result' = [result EXCEPT ![c] = Ret("cancel", 0)]
            /\ ctxrec' = [ctxrec EXCEPT ![h] = CancelEffect(@)]
            /\ reqEnabled' = [reqEnabled EXCEPT ![h] =
                                @ \/ cancel_state[h] = XPTHREAD_CANCEL_ENABLE]
            /\ reqDisabled' = [reqDisabled EXCEPT ![h] =
                                 @ \/ cancel_state[h] = XPTHREAD_CANCEL_DISABLE]
    /\ UNCHANGED <<pc, selfctx, hnd, exitcode, how, endval, thread>>
    /\ UNCHANGED <<cancel_state, oldstate, checks>>
    /\ UNCHANGED <<onceVars, joinVars, mutexVars, countVars, identVars, prioVars>>

\* The test of xpthread_testcancel: the calling thread has a record and its
\* cancel_requested is non-zero.
CancelPendingAnyRecord(t) == selfctx[t] # 0

CancelPending(t) ==
    /\ selfctx[t] # 0
    /\ ctxrec[selfctx[t]].cancel_requested # 0

\* xpthread_testcancel: _endthreadex(0) if the test succeeds, else return.
TestCancel(t) ==
    /\ pc[t] = "user"
    /\ checks < MaxChecks
    /\ IF CancelPending(t)
       THEN /\ pc' = [pc EXCEPT ![t] = "dead"]
            /\ exitcode' = [exitcode EXCEPT ![t] = 0]
            /\ how' = [how EXCEPT ![t] = "cancel"]
            /\ UNCHANGED <<result, checks>>
       ELSE /\ checks' = checks + 1
            /\ result' = [result EXCEPT ![t] = Ret("testcancel", 0)]
            /\ UNCHANGED <<pc, exitcode, how>>
    /\ UNCHANGED <<ctxrec, selfctx, hnd, endval, thread>>
    /\ UNCHANGED <<cancel_state, oldstate, reqEnabled, reqDisabled>>
    /\ UNCHANGED <<onceVars, joinVars, mutexVars, countVars, identVars, prioVars>>

NextCancel ==
    \/ CreateOk
    \/ StartStep
    \/ \E t \in Created : \E st \in {XPTHREAD_CANCEL_ENABLE, XPTHREAD_CANCEL_DISABLE} :
         \E want \in BOOLEAN : SetCancelState(t, st, want)
    \/ \E h \in 0..NThreads : Cancel(Main, h)
    \/ \E t \in Ctx : TestCancel(t)

SpecCancel == Init /\ [][NextCancel]_vars

\* Cancellation next to the blocking xpthread_mutex_lock.
NextCheckpoint ==
    \/ CreateOk
    \/ StartStep
    \/ \E h \in 0..NThreads : Cancel(Main, h)
    \/ \E t \in Ctx : TestCancel(t)
    \/ \E t \in Ctx : LockCall(t)
    \/ \E t \in Ctx : LockAcquire(t)
    \/ \E t \in Ctx : Unlock(t)

SpecCheckpoint == Init /\ [][NextCheckpoint]_vars

\* ------------------------------------------------------- the test program
\* main, lines 51-64: the creator starts the contexts, before it joins any.
TestCreate ==
    /\ \A t \in Created : hnd[t] # "closed"
    /\ target[Main] = 0
    /\ Create(Main, "ok")

\* main, lines 67-71: once all are started, it joins them in order.
TestJoinCall ==
    /\ NextUnborn = 0
    /\ \E h \in Created :
         /\ \A u \in Created : hnd[u] = "open" => h <= u
         /\ JoinCall(Main, h, TRUE)

TestJoinReturn == JoinReturn(Main)

\* thread_func: lock, old = counter, counter = old + 1, unlock, return id * 10.
TfLock(t) == t \in Created /\ incs[t] = 0 /\ held[t] = 0 /\ LockCall(t)
TfAcquire(t) == t \in Created /\ LockAcquire(t)
TfRead(t) == t \in Created /\ incs[t] = 0 /\ IncRead(t)
TfWrite(t) == t \in Created /\ IncWrite(t)
TfUnlock(t) == t \in Created /\ incs[t] = 1 /\ Unlock(t)
TfReturn(t) == t \in Created /\ incs[t] = 1 /\ held[t] = 0 /\ Return(t, <<0, 10 * t>>)

MainStep == TestCreate \/ TestJoinCall \/ TestJoinReturn

ThreadStep(t) ==
    \/ WrapperStart(t)
    \/ TfLock(t)
    \/ TfAcquire(t)
    \/ TfRead(t)
    \/ TfWrite(t)
    \/ TfUnlock(t)
    \/ TfReturn(t)

NextTest == MainStep \/ \E t \in Created : ThreadStep(t)

\* The scheduler runs every context that can take a step.
SpecTest ==
    /\ Init
    /\ [][NextTest]_vars
    /\ WF_vars(MainStep)
    /\ \A t \in Created : WF_vars(ThreadStep(t))

\* ================================================================== claims

\* A xpthread_once(control, once_func) call by t has returned.
OnceReturned(t) ==
    /\ pc[t] = "user"
    /\ result[t] # NoResult
    /\ result[t][1] = "once"
    /\ oncefn[t] = ONCE_FUNC

\* C1: over any number of xpthread_once calls on one control with once_func,
\* concurrent or sequential, the body of once_func is executed exactly once in
\* total and every such call returns 0.
C1_OnceExactlyOnce ==
    /\ initRuns <= 1
    /\ \A t \in Ctx : OnceReturned(t) => (result[t][2] = 0 /\ initRuns = 1)

\* C1 witness: two contexts have returned from xpthread_once with once_func
\* after at least three calls were made.
C1_Witness ==
    \E t, u \in Ctx :
        /\ t # u
        /\ OnceReturned(t) /\ OnceReturned(u)
        /\ calls >= 3
        /\ initRuns = 1

\* C2: no xpthread_once call returns before the single execution of once_func
\* has run to completion; a caller that arrived while it was in progress
\* resumes only after it finished, returns 0 without running once_func, and
\* sees its effects.
C2_OnceReturnsAfterInit ==
    /\ [](\A t \in Ctx : (OnceReturned(t) /\ result[t][2] = 0) => initDone)
    /\ [][\A t \in Ctx :
            (pc[t] = "once_wait" /\ pc'[t] # "once_wait" /\ initRuns >= 1)
            => /\ initDone
               /\ pc'[t] = "user"
               /\ result'[t] = Ret("once", 0)
               /\ initRuns' = initRuns]_vars

\* C2 witness: a context whose call blocked on the running once_func has
\* returned, and the effects of once_func are in place.
C2_Witness ==
    \E t \in Ctx : OnceReturned(t) /\ waited[t] /\ result[t][2] = 0 /\ initDone

\* The contexts between an acquisition that returned 0 and its matching unlock.
Holders == {t \in Ctx : held[t] > 0}

\* C3: in every reachable state at most one context is between a successful
\* acquisition (lock, trylock returning 0, timedlock returning 0) and its
\* matching unlock; so a counter incremented by read-then-write under the lock
\* equals the number of increments made.
C3_MutualExclusion ==
    /\ Cardinality(Holders) <= 1
    /\ counter = TotalIncs

\* C3 witness: both increments were made, by a context that holds the mutex
\* while another context is blocked in xpthread_mutex_lock.
C3_Witness ==
    \E t, u \in Ctx :
        /\ t # u
        /\ held[t] > 0
        /\ pc[u] = "lock_wait"
        /\ TotalIncs = 2
        /\ counter = 2

\* The creator has joined every context it started.
AllJoined ==
    /\ pc[Main] = "user"
    /\ \A t \in Created : hnd[t] = "closed"

\* C4: a creator starts N contexts that each lock the shared mutex, increment
\* the shared counter once and unlock, and then joins every handle: every join
\* eventually returns, each join returns only after its target has ended, and
\* once all N joins have returned the counter equals N, under every
\* interleaving.
C4_JoinAllCounter ==
    /\ <>AllJoined
    /\ [](\A t \in Created : hnd[t] = "closed" => pc[t] = "dead")
    /\ [](AllJoined => counter = NThreads)

\* C4 witness: all joins have returned and the counter equals the number of
\* contexts.
C4_Witness == AllJoined /\ counter = NThreads /\ \A t \in Created : incs[t] = 1

\* A xpthread_join by j with a non-NULL retval has returned; its target ended
\* in the way w.
Joined(j, w) ==
    /\ pc[j] = "user"
    /\ result[j] = Ret("join", 0)
    /\ wantret[j]
    /\ how[target[j]] = w

\* C5: if a created context calls xpthread_exit(value) in its entry function,
\* xpthread_join on its handle with a non-NULL retval stores exactly that
\* value, for small and large values and whichever context joins.
C5_ExitValueJoined ==
    \A j \in Ctx : Joined(j, "exit") => joinout[j] = endval[target[j]]

\* C6: if a created context ends by returning v from its entry function,
\* xpthread_join on its handle with a non-NULL retval delivers exactly v: the
\* value of the joined context, not one of the joining context, and not a
\* stale or untouched one.
C6_ReturnValueJoined ==
    \A j \in Ctx : Joined(j, "return") => joinout[j] = endval[target[j]]

\* C7: if xpthread_cancel(handle) is called on a created context whose
\* cancellation state is enabled, and that context afterwards calls
\* xpthread_testcancel, it ends at that checkpoint and never executes the code
\* after it.
C7_CancelThenTestcancel ==
    [][\A t \in Created :
         (reqEnabled[t] /\ cancel_state[t] = XPTHREAD_CANCEL_ENABLE /\ TestCancel(t))
         => pc'[t] = "dead"]_vars

\* C8: while the calling context's cancellation state is disabled,
\* xpthread_testcancel never ends the context, whether or not a cancellation
\* was requested for it: the context continues after the checkpoint.
C8_DisabledNeverCancelled ==
    [][\A t \in Ctx :
         (cancel_state[t] = XPTHREAD_CANCEL_DISABLE /\ TestCancel(t))
         => /\ pc'[t] = "user"
            /\ result'[t] = Ret("testcancel", 0)
            /\ checks' = checks + 1]_vars

\* C8 witness: a created context for which a cancellation was requested, and
\* whose state is disabled, has returned from xpthread_testcancel.
C8_Witness ==
    \E t \in Created :
        /\ reqEnabled[t] \/ reqDisabled[t]
        /\ cancel_state[t] = XPTHREAD_CANCEL_DISABLE
        /\ result[t] = Ret("testcancel", 0)
        /\ pc[t] = "user"

\* C9: a cancellation requested while the target's state is disabled is not
\* lost: the pending flag stays set across the xpthread_testcancel calls made
\* while disabled, and the first xpthread_testcancel the target executes after
\* re-enabling cancellation ends it.
C9_RequestNotLost ==
    /\ [](\A t \in Created : reqDisabled[t] => ctxrec[t].cancel_requested # 0)
    /\ [][\A t \in Created :
            (reqDisabled[t] /\ cancel_state[t] = XPTHREAD_CANCEL_ENABLE /\ TestCancel(t))
            => pc'[t] = "dead"]_vars

\* C10: xpthread_mutex_trylock never blocks (it returns in the step that calls
\* it, whatever the state of the mutex); called while another context holds the
\* mutex it returns EBUSY and leaves the holder unchanged; called while no
\* context holds it, it returns 0 and makes the caller the holder.
C10_TryLock ==
    /\ [](\A t \in Ctx : (pc[t] = "user" /\ ops < MaxOps) => ENABLED TryLock(t))
    /\ [][\A t \in Ctx : TryLock(t) =>
            /\ pc'[t] = "user"
            /\ (cs.owner \notin {NoOwner, t}) =>
                   /\ result'[t] = Ret("trylock", EBUSY)
                   /\ cs' = cs
                   /\ held' = held
            /\ (cs.owner = NoOwner) =>
                   /\ result'[t] = Ret("trylock", 0)
                   /\ cs' = [owner |-> t, count |-> 1]
                   /\ held' = [held EXCEPT ![t] = 1]]_vars

\* C10 witness: t got the mutex by trylock right after u, which held it,
\* unlocked it.
C10_Witness ==
    \E t, u \in Ctx :
        /\ t # u
        /\ result[u] = Ret("unlock", 0)
        /\ result[t] = Ret("trylock", 0)
        /\ cs = [owner |-> t, count |-> 1]
        /\ held[u] = 0

\* C10 witness of the busy case: t's trylock returned EBUSY while u holds the
\* mutex.
C10_WitnessBusy ==
    \E t, u \in Ctx :
        /\ t # u
        /\ result[t] = Ret("trylock", EBUSY)
        /\ cs.owner = u
        /\ held[t] = 0

\* The timespec a is strictly earlier than b; a is not later than b.
Before(a, b) ==
    \/ a.tv_sec < b.tv_sec
    \/ a.tv_sec = b.tv_sec /\ a.tv_nsec < b.tv_nsec

AtOrBefore(a, b) == a = b \/ Before(a, b)

\* C11: xpthread_mutex_timedlock called with a deadline at or before the
\* current time returns ETIMEDOUT in the step of the call, without an
\* acquisition attempt: the holder state of the mutex is unchanged, also when
\* the mutex is free. (Every acquisition call counts in ops.)
C11_PastDeadlineTimesOut ==
    [][ops' # ops =>
         \A t \in Ctx : \A a \in Deadlines : \A g \in Garbage :
            (AtOrBefore(a, now) /\ TimedLockCall(t, <<a>>, g))
            => /\ result'[t] = Ret("timedlock", ETIMEDOUT)
               /\ pc'[t] = "user"
               /\ cs' = cs
               /\ held' = held]_vars

\* C11 witness: the mutex is free, the clock has moved past a deadline, and the
\* timedlock call with that deadline returns ETIMEDOUT from this state, leaving
\* the mutex free.
C11_Witness ==
    /\ cs = [owner |-> NoOwner, count |-> 0]
    /\ Ticks >= 2
    /\ \E a \in Deadlines :
         /\ Before(a, now) /\ Before(StartTime, a)
         /\ ENABLED (/\ TimedLockCall(Main, <<a>>, INFINITE)
                     /\ result'[Main] = Ret("timedlock", ETIMEDOUT)
                     /\ cs' = cs)

\* C12: a timedlock call with a deadline in the future, on a mutex another
\* context holds, returns 0 with the caller as holder if that holder unlocks
\* strictly before the deadline; it does not return ETIMEDOUT. The holder may
\* unlock at any moment before the deadline, also right after the call has
\* returned, so the call must not return ETIMEDOUT while the mutex is held by
\* another context and the deadline is still ahead.
C12_ReleasedBeforeDeadline ==
    [][\A t \in Ctx :
         (/\ deadline[t] # <<>>
          /\ cs.owner \notin {NoOwner, t}
          /\ pc[cs.owner] = "user"
          /\ TimedLockTry(t)
          /\ Before(now, deadline[t][1]))
         => result'[t] # Ret("timedlock", ETIMEDOUT)]_vars

\* C13: a timedlock call on a mutex that no context holds, with a deadline
\* strictly later than the current time, however close, returns 0 and makes
\* the caller the holder: the call does not return at entry, and its attempt
\* on the free mutex succeeds.
C13_FreeMutexAcquired ==
    /\ [][ops' # ops =>
            \A t \in Ctx : \A a \in Deadlines : \A g \in Garbage :
               (cs.owner = NoOwner /\ Before(now, a) /\ TimedLockCall(t, <<a>>, g))
               => pc'[t] = "tl_loop"]_vars
    /\ [][\A t \in Ctx :
            (cs.owner = NoOwner /\ TimedLockTry(t))
            => /\ result'[t] = Ret("timedlock", 0)
               /\ cs' = [owner |-> t, count |-> 1]
               /\ pc'[t] = "user"]_vars

\* The handles contexts hold.
HandleVals == {selfh[t] : t \in Ctx}

\* C14: xpthread_equal on two xpthread_self handles obtained in the same
\* context is true, on the xpthread_self handles of two distinct created
\* contexts it is false; xpthread_equal is reflexive and symmetric.
C14_SelfHandlesIdentify ==
    /\ \A t \in Ctx :
         (result[t] # NoResult /\ result[t][1] = "equal") =>
            LET x == eqargs[t][1]
                y == eqargs[t][2]
            IN  /\ x = y => result[t][2] # 0
                /\ (x # y /\ x \in Created /\ y \in Created) => result[t][2] = 0
    /\ \A a \in HandleVals : xpthread_equal(a, a) # 0
    /\ \A a \in HandleVals : \A b \in HandleVals :
         xpthread_equal(a, b) = xpthread_equal(b, a)

\* A xpthread_equal call by t on xpthread_self handles has returned.
EqualReturned(t) == result[t] # NoResult /\ result[t][1] = "equal"

\* C14, amended: xpthread_equal on two xpthread_self handles is true when both
\* were obtained in the same context, and it is also true when they were
\* obtained in two distinct contexts (every xpthread_self returns the same
\* pseudo handle, which is comparable within one thread only); xpthread_equal
\* is reflexive and symmetric.
C14_SelfHandlesAllEqual ==
    /\ \A t \in Ctx : EqualReturned(t) => result[t][2] = 1
    /\ \A a \in HandleVals : xpthread_equal(a, a) # 0
    /\ \A a \in HandleVals : \A b \in HandleVals :
         xpthread_equal(a, b) = xpthread_equal(b, a)

\* C14 witness: a context has compared the xpthread_self handles obtained in
\* two distinct created contexts, and another one two handles of one context.
C14_Witness ==
    \E t, u \in Ctx :
        /\ EqualReturned(t) /\ EqualReturned(u)
        /\ eqargs[t][1] # eqargs[t][2]
        /\ eqargs[t][1] \in Created /\ eqargs[t][2] \in Created
        /\ eqargs[u][1] = eqargs[u][2]

\* C15: every call of xpthread_mutex_getprioceiling, _setprioceiling and
\* _consistent returns success for every argument combination; the ceiling
\* reported, and the old ceiling returned by set, is always 0 whatever was set
\* before; and none of the three changes whether or by whom the mutex is held.
C15_PrioCeilingInert ==
    [][\A t \in Ctx :
         /\ \A want \in BOOLEAN :
              GetPrioCeiling(t, want)
              => /\ result'[t] = Ret("getprioceiling", 0)
                 /\ want => ceiling'[t] = 0
                 /\ cs' = cs /\ held' = held
         /\ \A p \in Ceilings : \A want \in BOOLEAN :
              SetPrioCeiling(t, p, want)
              => /\ result'[t] = Ret("setprioceiling", 0)
                 /\ want => ceiling'[t] = 0
                 /\ cs' = cs /\ held' = held
         /\ Consistent(t)
              => /\ result'[t] = Ret("consistent", 0)
                 /\ cs' = cs /\ held' = held]_vars

\* C16: a timedlock call with a deadline in the future, on a mutex another
\* context holds for the whole call, polls once per interval until the polled
\* time (elapsed) reaches the remaining duration computed at entry
\* (total_ms64), makes one final attempt and returns ETIMEDOUT: an attempt
\* that fails before that duration was polled is followed by a sleep, and the
\* attempt that fails once it was polled ends the call.
C16_PollsForRemaining ==
    [][\A t \in Ctx :
         (deadline[t] # <<>> /\ cs.owner \notin {NoOwner, t} /\ TimedLockTry(t))
         => /\ elapsed[t] < total_ms64[t] => pc'[t] = "tl_sleep"
            /\ elapsed[t] >= total_ms64[t] =>
                 /\ result'[t] = Ret("timedlock", ETIMEDOUT)
                 /\ pc'[t] = "user"]_vars

\* C17: the mutex is non-reentrant: its hold count is never greater than one;
\* a context that holds it and calls trylock gets EBUSY, one that calls
\* timedlock does not acquire it a second time; and a single unlock by the
\* holder leaves the mutex free for other contexts.
C17_NonReentrant ==
    /\ [](cs.count <= 1)
    /\ [][\A t \in Ctx :
            (cs.owner = t /\ TryLock(t))
            => /\ result'[t] = Ret("trylock", EBUSY)
               /\ cs' = cs]_vars
    /\ [][\A t \in Ctx :
            (cs.owner = t /\ TimedLockTry(t))
            => /\ result'[t] # Ret("timedlock", 0)
               /\ cs' = cs]_vars
    /\ [][\A t \in Ctx : Unlock(t) => cs'.owner = NoOwner]_vars

\* No cancellation was requested for t (the initial thread has no handle to
\* request one with).
Unrequested(t) == t = Main \/ (~reqEnabled[t] /\ ~reqDisabled[t])

\* C18: a context is ended through the cancellation channel only in a step of
\* its own xpthread_testcancel; xpthread_cancel returns in the step that calls
\* it and neither ends nor blocks any context nor touches the mutex, so its
\* target goes on where it was (running, or blocked in xpthread_mutex_lock,
\* which it leaves as soon as the mutex can be entered); and
\* xpthread_testcancel by a context for which nothing was requested returns.
C18_OnlyAtCheckpoint ==
    /\ [][\A t \in Created :
            (how[t] # "cancel" /\ how'[t] = "cancel") => TestCancel(t)]_vars
    /\ [][\A h \in 0..NThreads :
            Cancel(Main, h) => (pc' = pc /\ cs' = cs /\ held' = held)]_vars
    /\ [](\A t \in Ctx : (pc[t] = "lock_wait" /\ CanEnter(t)) => ENABLED LockAcquire(t))
    /\ [][\A t \in Ctx :
            (Unrequested(t) /\ TestCancel(t))
            => /\ pc'[t] = "user"
               /\ result'[t] = Ret("testcancel", 0)]_vars

\* C18 witness: a created context for which a cancellation was requested is
\* blocked in xpthread_mutex_lock on a mutex another context holds, and both
\* the initial thread and a created context for which nothing was requested
\* have returned from xpthread_testcancel.
C18_Witness ==
    /\ \E t \in Created :
         /\ reqEnabled[t]
         /\ pc[t] = "lock_wait"
         /\ cs.owner \notin {NoOwner, t}
    /\ result[Main] = Ret("testcancel", 0)
    /\ \E u \in Created : Unrequested(u) /\ result[u] = Ret("testcancel", 0)

\* C19: every record allocated by xpthread_create is released: once a created
\* context has ended and its handle was joined or detached, no record of that
\* context remains allocated; and a record is not used after its release (the
\* record a context's xpthread_self_ctx points to stays allocated while the
\* context runs).
C19_RecordReleased ==
    /\ \A t \in Created :
         (pc[t] = "dead" /\ hnd[t] = "closed") => ~ctxrec[t].alloc
    /\ \A t \in Created :
         (selfctx[t] # 0 /\ pc[t] # "dead") => ctxrec[selfctx[t]].alloc

\* The contexts for which xpthread_create has started a thread.
Started == {t \in Created : pc[t] # "unborn"}

\* C20: a failing xpthread_create leaves nothing behind. When the record
\* cannot be allocated it returns ENOMEM and starts no context; when the
\* platform cannot start the context it returns EAGAIN, the record it
\* allocated is released, the caller's handle output is not written and the
\* entry function never runs (no context exists without a successful create,
\* and only such contexts have a record). On success it returns 0 in the same
\* step, with the handle written and the new context not yet running.
C20_CreateFailureClean ==
    /\ [][\A c \in Ctx :
            /\ Create(c, "nomem")
                 => /\ result'[c] = Ret("create", ENOMEM)
                    /\ pc' = pc /\ hnd' = hnd /\ thread' = thread
                    /\ ctxrec' = ctxrec
            /\ Create(c, "nothread")
                 => /\ result'[c] = Ret("create", EAGAIN)
                    /\ pc' = pc /\ hnd' = hnd /\ thread' = thread
                    /\ \A t \in Created : ctxrec'[t].alloc = ctxrec[t].alloc
            /\ Create(c, "ok")
                 => /\ result'[c] = Ret("create", 0)
                    /\ pc'[c] = "user"
                    /\ thread'[c] = NextUnborn
                    /\ hnd'[NextUnborn] = "open"
                    /\ ctxrec'[NextUnborn].alloc
                    /\ pc'[NextUnborn] = "start"
                    /\ selfctx'[NextUnborn] = 0]_vars
    /\ [](\A t \in Created : t \in Started <=> hnd[t] # "none")
    /\ [](\A t \in Created : ctxrec[t].alloc => t \in Started)

\* C20 witness: after one successful xpthread_create, a second call has
\* returned EAGAIN: the handle output still names the first context, and the
\* context the failed call would have started has no record and does not run.
C20_Witness ==
    \E t \in Created :
        /\ result[Main] = Ret("create", EAGAIN)
        /\ thread[Main] = t
        /\ NextUnborn \notin {0, t}
        /\ ~ctxrec[NextUnborn].alloc
        /\ hnd[NextUnborn] = "none"

====
